---- MODULE Spec2Model ----
(***************************************************************************)
(* A model of url.py: the URL value type, its constructor, its chainable  *)
(* transformations and its equality / equivalence relations.              *)
(*                                                                         *)
(* Text is a sequence of code points (naturals).  The absent value (None) *)
(* of a text field is the one-element sequence <<-1>>, the absent port is *)
(* -1.                                                                     *)
(***************************************************************************)
EXTENDS Integers, Sequences, FiniteSets, TLC

\* ------------------------------------------------------------ characters

\* ord() of the characters the model names
Ord ==
  [c \in {" ", "\"", "#", "%", "&", "'", ",", "-", ".", "/", "0", "1", "2", "3", "5",
          "8", ":", ";", "=", "?", "@", "A", "B", "C", "D", "E", "F", "H", "X", "[", "]",
          "_", "a", "b", "c", "d", "e", "f", "h", "o", "p", "s", "t", "x", "z", "~", "4", "7", "9",
          "g", "u", "y", "6", "L", "n", "r", "i", "P"} |->
     CASE c = " " -> 32 [] c = "\"" -> 34 [] c = "#" -> 35 [] c = "%" -> 37
       [] c = "&" -> 38 [] c = "'" -> 39 [] c = "," -> 44 [] c = "-" -> 45
       [] c = "." -> 46 [] c = "/" -> 47 [] c = "0" -> 48 [] c = "1" -> 49
       [] c = "2" -> 50 [] c = "3" -> 51 [] c = "5" -> 53 [] c = "8" -> 56
       [] c = ":" -> 58 [] c = ";" -> 59 [] c = "=" -> 61 [] c = "?" -> 63
       [] c = "@" -> 64 [] c = "A" -> 65 [] c = "B" -> 66 [] c = "C" -> 67
       [] c = "D" -> 68 [] c = "E" -> 69 [] c = "F" -> 70 [] c = "H" -> 72
       [] c = "X" -> 88 [] c = "[" -> 91 [] c = "]" -> 93 [] c = "_" -> 95
       [] c = "a" -> 97 [] c = "b" -> 98 [] c = "c" -> 99 [] c = "d" -> 100
       [] c = "e" -> 101 [] c = "f" -> 102 [] c = "h" -> 104 [] c = "o" -> 111
       [] c = "p" -> 112 [] c = "s" -> 115 [] c = "t" -> 116 [] c = "x" -> 120
       [] c = "z" -> 122 [] c = "~" -> 126 [] c = "4" -> 52 [] c = "7" -> 55
       [] c = "9" -> 57 [] c = "g" -> 103 [] c = "u" -> 117 [] c = "y" -> 121 [] c = "6" -> 54 [] c = "L" -> 76
       [] c = "n" -> 110 [] c = "r" -> 114 [] c = "i" -> 105 [] c = "P" -> 80]

\* a text literal: T(<<"a", "/", "b">>) is the text a/b
T(s) == [i \in DOMAIN s |-> Ord[s[i]]]

\* s[a-1:b] with Python's clamping of the slice bounds (1-based, inclusive)
Slice(s, a, b) ==
  LET hi == IF b > Len(s) THEN Len(s) ELSE b
  IN  IF a < 1 \/ a > hi THEN <<>> ELSE SubSeq(s, a, hi)

\* the set of code points of a text
Chars(s) == {s[i] : i \in DOMAIN s}

None == <<-1>>
NoPort == -1

\* Python truthiness of a text-or-None field and of a port-or-None
Truthy(x) == x # None /\ x # <<>>
PortTruthy(p) == p # NoPort /\ p # 0

\* RFC 3986 character classes of class URL
GEN_DELIMS == Chars(T(<<":", "/", "?", "#", "[", "]", "@">>))
SUB_DELIMS == {33, 36, 38, 39, 40, 41, 42, 43, 44, 59, 61}
ALPHA == (65..90) \cup (97..122)
DIGIT == 48..57
UNRESERVED == ALPHA \cup DIGIT \cup Chars(T(<<"-", ".", "_", "~">>))
RESERVED == GEN_DELIMS \cup SUB_DELIMS
PCHAR == UNRESERVED \cup SUB_DELIMS \cup Chars(T(<<":", "@">>))
PATH == PCHAR \cup Chars(T(<<"/">>))
QUERY == PCHAR \cup Chars(T(<<"/", "?">>))
USERINFO == UNRESERVED \cup SUB_DELIMS \cup Chars(T(<<":">>))

\* The default ports associated with each scheme (None when unregistered)
PORTS(sch) ==
  IF sch = T(<<"h", "t", "t", "p">>) THEN 80
  ELSE IF sch = T(<<"h", "t", "t", "p", "s">>) THEN 443
  ELSE NoPort

\* ------------------------------------------------------------ text helpers

IsHex(c) == c \in DIGIT \/ c \in 65..70 \/ c \in 97..102
HexVal(c) == IF c \in DIGIT THEN c - 48 ELSE IF c \in 65..70 THEN c - 55 ELSE c - 87
HexDigit(n) == IF n < 10 THEN 48 + n ELSE 55 + n
\* str.upper() / str.lower() on one ASCII character
Upper(c) == IF c \in 97..122 THEN c - 32 ELSE c
Lower(c) == IF c \in 65..90 \/ (c \in 192..222 /\ c # 215) THEN c + 32 ELSE c
LowerText(s) == [i \in DOMAIN s |-> Lower(s[i])]

\* '%%%02X' % b
Triplet(b) == <<Ord["%"], HexDigit(b \div 16), HexDigit(b % 16)>>

\* the regex alternative %([a-fA-F0-9]{2}) matches at position i
IsTriplet(s, i) ==
  /\ i + 2 <= Len(s)
  /\ s[i] = Ord["%"]
  /\ IsHex(s[i + 1])
  /\ IsHex(s[i + 2])

\* string.encode('utf-8') of one character
Utf8(c) ==
  IF c < 128 THEN <<c>>
  ELSE IF c < 2048 THEN <<192 + (c \div 64), 128 + (c % 64)>>
  ELSE IF c < 65536 THEN <<224 + (c \div 4096), 128 + ((c \div 64) % 64), 128 + (c % 64)>>
  ELSE <<240 + (c \div 262144), 128 + ((c \div 4096) % 64),
         128 + ((c \div 64) % 64), 128 + (c % 64)>>

RECURSIVE Flatten(_)
Flatten(ss) == IF ss = <<>> THEN <<>> ELSE Head(ss) \o Flatten(Tail(ss))

TripletsOf(bytes) == Flatten([i \in DOMAIN bytes |-> Triplet(bytes[i])])

\* ------------------------------------------------------------ percent-encoding

\* a replacement that decodes every triplet outside the reserved set, '%'
\* included: the variant escape must not be (its output would not be stable)
ReplacementDecodingUnsafe(raw, safe, i) ==
  IF IsTriplet(raw, i)
  THEN LET character == 16 * HexVal(raw[i + 1]) + HexVal(raw[i + 2])
       IN  IF character \in safe \/ character \notin RESERVED
           THEN <<character>>
           ELSE <<raw[i], Upper(raw[i + 1]), Upper(raw[i + 2])>>
  ELSE IF raw[i] \in safe THEN <<raw[i]>> ELSE TripletsOf(Utf8(raw[i]))

\* replacement(match) of percent_encode for the token that starts at i
Replacement(raw, safe, i) ==
  IF IsTriplet(raw, i)
  THEN LET character == 16 * HexVal(raw[i + 1]) + HexVal(raw[i + 2])
       IN  IF character \in safe /\ character \notin RESERVED
           THEN <<character>>
           ELSE <<raw[i], Upper(raw[i + 1]), Upper(raw[i + 2])>>
  ELSE IF raw[i] \in safe THEN <<raw[i]>> ELSE TripletsOf(Utf8(raw[i]))

\* a scan that lets tokens overlap: it moves on by one character after a triplet
RECURSIVE PercentScanOverlapping(_, _, _)
PercentScanOverlapping(raw, safe, i) ==
  IF i > Len(raw) THEN <<>>
  ELSE Replacement(raw, safe, i) \o PercentScanOverlapping(raw, safe, i + 1)

RECURSIVE PercentScan(_, _, _)
PercentScan(raw, safe, i) ==
  IF i > Len(raw) THEN <<>>
  ELSE Replacement(raw, safe, i)
         \o PercentScan(raw, safe, IF IsTriplet(raw, i) THEN i + 3 ELSE i + 1)

\* URL.percent_encode(raw, safe): PERCENT_ESCAPING_RE.sub(replacement, raw)
percent_encode(raw, safe) == PercentScan(raw, safe, 1)

\* urllib unquote, first half: the text as items, a byte 0..255 for an ASCII
\* character or a triplet, and -c for a literal non-ASCII character c
RECURSIVE UnquoteItems(_, _)
UnquoteItems(s, i) ==
  IF i > Len(s) THEN <<>>
  ELSE IF IsTriplet(s, i)
       THEN <<16 * HexVal(s[i + 1]) + HexVal(s[i + 2])>> \o UnquoteItems(s, i + 3)
       ELSE <<IF s[i] < 128 THEN s[i] ELSE 0 - s[i]>> \o UnquoteItems(s, i + 1)

\* item i exists and is a byte in lo..hi
ByteIn(items, i, lo, hi) == i <= Len(items) /\ items[i] >= lo /\ items[i] <= hi

ReplacementChar == <<65533>>

\* urllib unquote, second half: bytes.decode('utf-8', 'replace') of the byte
\* runs, one U+FFFD per maximal ill-formed subpart
RECURSIVE Utf8Decode(_, _)
Utf8Decode(items, i) ==
  IF i > Len(items) THEN <<>>
  ELSE LET b == items[i]
           lo2 == IF b = 224 THEN 160 ELSE IF b = 240 THEN 144 ELSE 128
           hi2 == IF b = 237 THEN 159 ELSE IF b = 244 THEN 143 ELSE 191
       IN  IF b < 0 THEN <<0 - b>> \o Utf8Decode(items, i + 1)
           ELSE IF b < 128 THEN <<b>> \o Utf8Decode(items, i + 1)
           ELSE IF b \in 194..223
           THEN IF ByteIn(items, i + 1, 128, 191)
                THEN <<(b - 192) * 64 + (items[i + 1] - 128)>> \o Utf8Decode(items, i + 2)
                ELSE ReplacementChar \o Utf8Decode(items, i + 1)
           ELSE IF b \in 224..239
           THEN IF ~ByteIn(items, i + 1, lo2, hi2)
                THEN ReplacementChar \o Utf8Decode(items, i + 1)
                ELSE IF ~ByteIn(items, i + 2, 128, 191)
                THEN ReplacementChar \o Utf8Decode(items, i + 2)
                ELSE <<(b - 224) * 4096 + (items[i + 1] - 128) * 64 + (items[i + 2] - 128)>>
                       \o Utf8Decode(items, i + 3)
           ELSE IF b \in 240..244
           THEN IF ~ByteIn(items, i + 1, lo2, hi2)
                THEN ReplacementChar \o Utf8Decode(items, i + 1)
                ELSE IF ~ByteIn(items, i + 2, 128, 191)
                THEN ReplacementChar \o Utf8Decode(items, i + 2)
                ELSE IF ~ByteIn(items, i + 3, 128, 191)
                THEN ReplacementChar \o Utf8Decode(items, i + 3)
                ELSE <<(b - 240) * 262144 + (items[i + 1] - 128) * 4096
                         + (items[i + 2] - 128) * 64 + (items[i + 3] - 128)>>
                       \o Utf8Decode(items, i + 4)
           ELSE ReplacementChar \o Utf8Decode(items, i + 1)

\* urlunquote(s)
urlunquote(s) == Utf8Decode(UnquoteItems(s, 1), 1)

\* a quote that writes the hex digits of a triplet in lower case
QuoteByteLowerHex(b, safe) ==
  IF b \in safe THEN <<b>>
  ELSE <<Ord["%"], Lower(HexDigit(b \div 16)), Lower(HexDigit(b % 16))>>

\* urlquote of one byte: kept when in safe (the always-safe unreserved
\* characters are part of every safe set used here), else %XX
QuoteByte(b, safe) == IF b \in safe THEN <<b>> ELSE Triplet(b)

QuoteChar(c, safe) ==
  LET bytes == Utf8(c) IN Flatten([i \in DOMAIN bytes |-> QuoteByte(bytes[i], safe)])

\* urlquote(s, safe)
urlquote(s, safe) == Flatten([i \in DOMAIN s |-> QuoteChar(s[i], safe)])

\* ------------------------------------------------------------ tokens

\* str.split(d): the pieces between the delimiters, at least one piece
RECURSIVE SplitFrom(_, _, _, _)
SplitFrom(s, d, i, cur) ==
  IF i > Len(s) THEN <<cur>>
  ELSE IF s[i] = d THEN <<cur>> \o SplitFrom(s, d, i + 1, <<>>)
  ELSE SplitFrom(s, d, i + 1, Append(cur, s[i]))

Split(s, d) == SplitFrom(s, d, 1, <<>>)

\* d.join(parts)
RECURSIVE Join(_, _)
Join(parts, d) ==
  IF parts = <<>> THEN <<>>
  ELSE IF Len(parts) = 1 THEN parts[1]
  ELSE parts[1] \o <<d>> \o Join(Tail(parts), d)

\* an order that looks at the first code point only
TextLessByHead(a, b) == b # <<>> /\ (a = <<>> \/ Head(a) < Head(b))

\* a < b in Python's string order (code points, a proper prefix first)
RECURSIVE TextLess(_, _)
TextLess(a, b) ==
  IF b = <<>> THEN FALSE
  ELSE IF a = <<>> THEN TRUE
  ELSE IF Head(a) # Head(b) THEN Head(a) < Head(b)
  ELSE TextLess(Tail(a), Tail(b))

RECURSIVE Insert(_, _)
Insert(x, sorted) ==
  IF sorted = <<>> THEN <<x>>
  ELSE IF TextLess(x, Head(sorted)) THEN <<x>> \o sorted
  ELSE <<Head(sorted)>> \o Insert(x, Tail(sorted))

\* sorted(parts)
RECURSIVE Sorted(_)
Sorted(parts) == IF parts = <<>> THEN <<>> ELSE Insert(Head(parts), Sorted(Tail(parts)))

\* re.sub(d{2,}, d, s): every run of the delimiter becomes one
RECURSIVE CollapseRuns(_, _)
CollapseRuns(s, d) ==
  IF Len(s) < 2 THEN s
  ELSE IF s[1] = d /\ s[2] = d THEN CollapseRuns(Tail(s), d)
  ELSE <<s[1]>> \o CollapseRuns(Tail(s), d)

\* re.sub(^d+, '', s)
RECURSIVE StripLeading(_, _)
StripLeading(s, d) == IF s # <<>> /\ Head(s) = d THEN StripLeading(Tail(s), d) ELSE s

\* re.sub(^d|d$, '', s): one delimiter off the start and one off the end
StripEnds(s, d) ==
  LET a == IF s # <<>> /\ Head(s) = d THEN Tail(s) ELSE s
  IN  IF a # <<>> /\ a[Len(a)] = d THEN Slice(a, 1, Len(a) - 1) ELSE a

\* ------------------------------------------------------------ the URL value

Fields == {"scheme", "host", "port", "path", "params", "query", "fragment", "userinfo"}

\* URL.__init__: the stored fields for the given components
URLInit(sch, hst, prt, pth, prm, qry, frg, usr) ==
  [scheme   |-> sch,
   host     |-> hst,
   port     |-> prt,
   path     |-> IF Truthy(pth) THEN pth ELSE T(<<"/">>),
   params   |-> StripEnds(CollapseRuns(StripLeading(prm, Ord[";"]), Ord[";"]), Ord[";"]),
   query    |-> StripEnds(CollapseRuns(StripLeading(qry, Ord["?"]), Ord["&"]), Ord["&"]),
   fragment |-> frg,
   userinfo |-> usr]

\* URL.canonical on one component
CanonicalText(s, d) == Join(Sorted(Split(s, d)), d)

canonical(u) ==
  [u EXCEPT !.query = CanonicalText(u.query, Ord["&"]),
            !.params = CanonicalText(u.params, Ord[";"])]

defrag(u) == [u EXCEPT !.fragment = None]

\* deuserinfo that drops the fragment as well
deuserinfoAndFragment(u) == [u EXCEPT !.userinfo = None, !.fragment = None]

deuserinfo(u) == [u EXCEPT !.userinfo = None]

\* query.partition('='): the name and the value of a token
RECURSIVE NameOf(_)
NameOf(q) == IF q = <<>> \/ Head(q) = Ord["="] THEN <<>> ELSE <<Head(q)>> \o NameOf(Tail(q))

ValueOf(q) ==
  LET n == Len(NameOf(q)) IN IF n + 2 > Len(q) THEN <<>> ELSE Slice(q, n + 2, Len(q))

\* the callables given to filter_params: the predicates of the calls below by
\* name, and the closure that deparam builds over its set of lowered names
FilterFns == {"name_is_a", "value_is_empty", "value_is_a", "always", "never"}

Predicate(f) == [fn |-> f, lowered |-> {}]
DeparamFunction(lowered) == [fn |-> "deparam", lowered |-> lowered]

\* function(name, value)
FilterFn(function, name, value) ==
  CASE function.fn = "deparam" -> LowerText(name) \in function.lowered
    [] function.fn = "name_is_a" -> name = T(<<"a">>)
    [] function.fn = "value_is_empty" -> value = <<>>
    [] function.fn = "value_is_a" -> value = T(<<"a">>)
    [] function.fn = "always" -> TRUE
    [] function.fn = "never" -> FALSE

\* the tokens q of the list with: q and keep(q)
KeepTokens(parts, function) ==
  LET keep(q) == q # <<>> /\ ~FilterFn(function, NameOf(q), ValueOf(q))
  IN  SelectSeq(parts, keep)

FilterText(s, d, function) == Join(KeepTokens(Split(s, d), function), d)

\* URL.filter_params(function)
filter_params(u, function) ==
  [u EXCEPT !.query = FilterText(u.query, Ord["&"], function),
            !.params = FilterText(u.params, Ord[";"], function)]

\* deparam that compares the names as given, without lower()
deparamCaseSensitive(u, names) ==
  LET keep(q) == q # <<>> /\ NameOf(q) \notin names
  IN  [u EXCEPT !.query = Join(SelectSeq(Split(u.query, Ord["&"]), keep), Ord["&"]),
                !.params = Join(SelectSeq(Split(u.params, Ord[";"]), keep), Ord[";"])]

\* URL.deparam(params): names is the set of the given names
deparam(u, names) ==
  LET lowered == {LowerText(p) : p \in names}
  IN  filter_params(u, DeparamFunction(lowered))

\* a walk that keeps a '..' for which there is no segment to pop
RECURSIVE AbspathWalkKeepingParent(_, _, _, _)
AbspathWalkKeepingParent(parts, i, unsplit, directory) ==
  IF i > Len(parts) THEN <<unsplit, directory>>
  ELSE IF parts[i] = T(<<".", ".">>) /\ unsplit # <<>>
       THEN AbspathWalkKeepingParent(parts, i + 1, Slice(unsplit, 1, Len(unsplit) - 1), TRUE)
       ELSE IF parts[i] # T(<<".">>)
       THEN AbspathWalkKeepingParent(parts, i + 1, Append(unsplit, parts[i]), FALSE)
       ELSE AbspathWalkKeepingParent(parts, i + 1, unsplit, TRUE)

\* the loop of abspath over the parts from i on: <<unsplit, directory>>
RECURSIVE AbspathWalk(_, _, _, _)
AbspathWalk(parts, i, unsplit, directory) ==
  IF i > Len(parts) THEN <<unsplit, directory>>
  ELSE IF parts[i] = T(<<".", ".">>)
       THEN AbspathWalk(parts, i + 1,
                        IF unsplit = <<>> THEN <<>> ELSE Slice(unsplit, 1, Len(unsplit) - 1),
                        TRUE)
       ELSE IF parts[i] # T(<<".">>)
       THEN AbspathWalk(parts, i + 1, Append(unsplit, parts[i]), FALSE)
       ELSE AbspathWalk(parts, i + 1, unsplit, TRUE)

\* an abspath that forgets that the last segment was '.' or '..'
AbspathTextWithoutDirectory(p) ==
  Join(AbspathWalk(Split(CollapseRuns(p, Ord["/"]), Ord["/"]), 1, <<>>, FALSE)[1], Ord["/"])

\* URL.abspath on the path text
AbspathText(p) ==
  LET w == AbspathWalk(Split(CollapseRuns(p, Ord["/"]), Ord["/"]), 1, <<>>, FALSE)
  IN  IF w[2] THEN Join(w[1], Ord["/"]) \o T(<<"/">>) ELSE Join(w[1], Ord["/"])

abspath(u) == [u EXCEPT !.path = AbspathText(u.path)]

\* URL.escape(strict)
escape(u, strict) ==
  IF strict
  THEN [u EXCEPT !.path = percent_encode(u.path, PATH),
                 !.query = percent_encode(u.query, QUERY),
                 !.params = percent_encode(u.params, QUERY),
                 !.userinfo = IF Truthy(u.userinfo)
                              THEN percent_encode(u.userinfo, USERINFO) ELSE u.userinfo]
  ELSE [u EXCEPT !.path = urlquote(urlunquote(u.path), PATH),
                 !.query = urlquote(urlunquote(u.query), QUERY),
                 !.params = urlquote(urlunquote(u.params), QUERY),
                 !.userinfo = IF Truthy(u.userinfo)
                              THEN urlquote(urlunquote(u.userinfo), USERINFO)
                              ELSE u.userinfo]

unescape(u) == [u EXCEPT !.path = urlunquote(u.path)]

\* URL.sanitize
sanitize(u) == escape(abspath(u), FALSE)

\* URL.absolute
absolute(u) == Truthy(u.host)

\* ------------------------------------------------------------ serialization

\* s.find(c) from position i on (1-based), 0 when absent
RECURSIVE Find(_, _, _)
Find(s, cs, i) == IF i > Len(s) THEN 0 ELSE IF s[i] \in cs THEN i ELSE Find(s, cs, i + 1)

\* s.rfind(c), 0 when absent
RECURSIVE RFind(_, _, _)
RFind(s, c, i) == IF i < 1 THEN 0 ELSE IF s[i] = c THEN i ELSE RFind(s, c, i - 1)

Before(s, i) == Slice(s, 1, i - 1)
After(s, i) == Slice(s, i + 1, Len(s))

\* str(n) for a natural number
RECURSIVE IntToText(_)
IntToText(n) == IF n < 10 THEN <<48 + n>> ELSE IntToText(n \div 10) \o <<48 + (n % 10)>>

\* int(s) for a text of decimal digits
RECURSIVE TextToInt(_)
TextToInt(s) ==
  IF s = <<>> THEN 0 ELSE 10 * TextToInt(Slice(s, 1, Len(s) - 1)) + (s[Len(s)] - 48)

\* the schemes the model uses that urllib lists in uses_netloc and uses_params
USES_NETLOC ==
  {<<>>, T(<<"h", "t", "t", "p">>), T(<<"h", "t", "t", "p", "s">>), T(<<"f", "t", "p">>)}
USES_PARAMS == USES_NETLOC
SCHEME_CHARS == ALPHA \cup DIGIT \cup {43, 45, 46}

\* urlunparse((scheme, netloc, path, params, query, fragment))
urlunparse(sch, netloc, pth, prm, qry, frg) ==
  LET url1 == IF Truthy(prm) THEN pth \o T(<<";">>) \o prm ELSE pth
      url2 == IF netloc # <<>>
                 \/ (sch # <<>> /\ sch \in USES_NETLOC /\ Slice(url1, 1, 2) # T(<<"/", "/">>))
              THEN T(<<"/", "/">>) \o netloc
                     \o (IF url1 # <<>> /\ url1[1] # Ord["/"] THEN T(<<"/">>) ELSE <<>>)
                     \o url1
              ELSE url1
      url3 == IF sch # <<>> THEN sch \o T(<<":">>) \o url2 ELSE url2
      url4 == IF Truthy(qry) THEN url3 \o T(<<"?">>) \o qry ELSE url3
  IN  IF Truthy(frg) THEN url4 \o T(<<"#">>) \o frg ELSE url4

\* URL.__str__
Str(u) ==
  LET n1 == IF Truthy(u.host) THEN u.host ELSE <<>>
      n2 == IF PortTruthy(u.port) THEN n1 \o T(<<":">>) \o IntToText(u.port) ELSE n1
      n3 == IF u.userinfo # None THEN u.userinfo \o T(<<"@">>) \o n2 ELSE n2
  IN  urlunparse(u.scheme, n3, u.path, u.params, u.query, u.fragment)

\* urlsplit, the scheme: <<scheme, rest>>
SplitScheme(url) ==
  LET i == Find(url, {Ord[":"]}, 1)
  IN  IF i > 1 /\ url[1] \in ALPHA /\ \A k \in 1..(i - 1) : url[k] \in SCHEME_CHARS
      THEN <<LowerText(Before(url, i)), After(url, i)>>
      ELSE <<<<>>, url>>

\* urlsplit, the authority: <<netloc, rest>>
SplitNetloc(url) ==
  IF Slice(url, 1, 2) = T(<<"/", "/">>)
  THEN LET d == Find(url, Chars(T(<<"/", "?", "#">>)), 3)
       IN  IF d = 0 THEN <<Slice(url, 3, Len(url)), <<>>>>
           ELSE <<Slice(url, 3, d - 1), Slice(url, d, Len(url))>>
  ELSE <<<<>>, url>>

\* url.split(c, 1) when c occurs: <<before, after>>, else <<url, ''>>
SplitOnce(url, c) ==
  LET i == Find(url, {c}, 1)
  IN  IF i = 0 THEN <<url, <<>>>> ELSE <<Before(url, i), After(url, i)>>

\* urlparse, the params of the last path segment: <<path, params>>
SplitParams(sch, url) ==
  IF sch \in USES_PARAMS /\ Find(url, {Ord[";"]}, 1) # 0
  THEN LET i == Find(url, {Ord[";"]}, IF RFind(url, Ord["/"], Len(url)) = 0
                                       THEN 1 ELSE RFind(url, Ord["/"], Len(url)))
       IN  IF i = 0 THEN <<url, <<>>>> ELSE <<Before(url, i), After(url, i)>>
  ELSE <<url, <<>>>>

\* netloc.rpartition('@'): <<userinfo or None, hostinfo>>
NetlocParts(netloc) ==
  LET i == RFind(netloc, Ord["@"], Len(netloc))
  IN  IF i = 0 THEN <<None, netloc>> ELSE <<Before(netloc, i), After(netloc, i)>>

\* parsed.hostname: lower-cased up to a '%', None when empty
Hostname(netloc) ==
  LET h == SplitOnce(NetlocParts(netloc)[2], Ord[":"])[1]
      z == Find(h, {Ord["%"]}, 1)
  IN  IF h = <<>> THEN None
      ELSE IF z = 0 THEN LowerText(h)
      ELSE LowerText(Before(h, z)) \o Slice(h, z, Len(h))

\* parsed.port, with URL.parse's "except ValueError: port = None"
Port(netloc) ==
  LET p == SplitOnce(NetlocParts(netloc)[2], Ord[":"])[2]
  IN  IF p = <<>> THEN NoPort
      ELSE IF \E k \in DOMAIN p : p[k] \notin DIGIT THEN NoPort
      ELSE IF Len(p) > 5 \/ TextToInt(p) > 65535 THEN NoPort
      ELSE TextToInt(p)

\* userinfo of URL.parse: the user name, and the password when both are non-empty
Userinfo(netloc) ==
  LET ui == NetlocParts(netloc)[1]
      up == SplitOnce(ui, Ord[":"])
  IN  IF ui = None THEN None
      ELSE IF up[1] # <<>> /\ up[2] # <<>> THEN up[1] \o T(<<":">>) \o up[2]
      ELSE up[1]

\* url.lstrip(C0 control or space), then tab, CR and LF removed
IsUnsafe(c) == c \in {9, 10, 13}
RECURSIVE LStrip(_)
LStrip(url) == IF url # <<>> /\ url[1] <= 32 THEN LStrip(Tail(url)) ELSE url
Cleaned(url) == LET keep(c) == ~IsUnsafe(c) IN SelectSeq(LStrip(url), keep)

\* the components URL.parse hands to the constructor: urlparse(url), with
\* hostname, port and userinfo taken from the netloc
UrlParse(url) ==
  LET a == SplitScheme(Cleaned(url))
      b == SplitNetloc(a[2])
      c == SplitOnce(b[2], Ord["#"])
      d == SplitOnce(c[1], Ord["?"])
      e == SplitParams(a[1], d[1])
  IN  [scheme |-> a[1], host |-> Hostname(b[1]), port |-> Port(b[1]), path |-> e[1],
       params |-> e[2], query |-> d[2], fragment |-> c[2], userinfo |-> Userinfo(b[1])]

\* URL.parse(url): urlparse, then the constructor
Parse(url) ==
  CHOOSE u \in {URLInit(p.scheme, p.host, p.port, p.path, p.params, p.query, p.fragment,
                        p.userinfo) : p \in {UrlParse(url)}} : TRUE

\* ------------------------------------------------------------ punycode

XN_TDA == T(<<"x", "n", "-", "-", "t", "d", "a">>)

\* the IDNA codec on one label, for the labels the model uses: an ASCII label
\* is itself (case kept), the label u-umlaut (either case) is xn--tda and the
\* label sharp-s is ss
ToASCII(label) ==
  IF \A k \in DOMAIN label : label[k] < 128 THEN label
  ELSE CASE LowerText(label) = <<252>> -> XN_TDA
         [] label = <<223>> -> T(<<"s", "s">>)

ToUnicode(label) == IF label = XN_TDA THEN <<252>> ELSE label

\* host.encode('idna') raises UnicodeError: an empty label that is not the last
IdnaFails(hst) ==
  LET labels == Split(hst, Ord["."])
  IN  \E k \in 1..(Len(labels) - 1) : labels[k] = <<>>

IdnaEncode(hst) ==
  LET labels == Split(hst, Ord["."])
  IN  Join([k \in DOMAIN labels |-> ToASCII(labels[k])], Ord["."])

\* host.encode('utf-8').decode('idna') raises: the host is not ASCII
UnidnaFails(hst) == \E k \in DOMAIN hst : hst[k] >= 128

IdnaDecode(hst) ==
  LET labels == Split(hst, Ord["."])
  IN  Join([k \in DOMAIN labels |-> ToUnicode(labels[k])], Ord["."])

\* punycode that takes only an absent host, not an empty one, for relative
PunycodeErrorAbsentOnly(u) ==
  IF u.host = None THEN "TypeError" ELSE IF IdnaFails(u.host) THEN "UnicodeError" ELSE ""

\* what URL.punycode raises ("" when it returns self)
PunycodeError(u) ==
  IF ~Truthy(u.host) THEN "TypeError" ELSE IF IdnaFails(u.host) THEN "UnicodeError" ELSE ""

\* URL.punycode when it does not raise
punycode(u) == [u EXCEPT !.host = IdnaEncode(u.host)]

UnpunycodeError(u) ==
  IF ~Truthy(u.host) THEN "TypeError" ELSE IF UnidnaFails(u.host) THEN "UnicodeError" ELSE ""

unpunycode(u) == [u EXCEPT !.host = IdnaDecode(u.host)]

\* ------------------------------------------------------------ relations

Bool(b) == IF b THEN "True" ELSE "False"

\* the clone equiv makes of an operand and normalizes, before punycode
EquivClone(u) == escape(abspath(defrag(canonical(Parse(Str(u))))), FALSE)
EquivCloneOfText(s) == escape(abspath(defrag(canonical(Parse(s)))), FALSE)

\* the comparison of equiv on the two normalized clones
EquivCompare(a, b) ==
  IF a.scheme = b.scheme /\ a.host = b.host /\ a.path = b.path
       /\ a.params = b.params /\ a.query = b.query
  THEN IF PortTruthy(a.port) /\ ~PortTruthy(b.port) THEN a.port = PORTS(a.scheme)
       ELSE IF PortTruthy(b.port) /\ ~PortTruthy(a.port) THEN b.port = PORTS(b.scheme)
       ELSE a.port = b.port
  ELSE FALSE

\* equiv on the clones: "True", "False" or the exception punycode raises
EquivOfClones(a, b) ==
  IF PunycodeError(a) # "" THEN PunycodeError(a)
  ELSE IF PunycodeError(b) # "" THEN PunycodeError(b)
  ELSE Bool(EquivCompare(punycode(a), punycode(b)))

\* self.equiv(other) for a URL operand and for a raw string operand
equiv(self, other) == EquivOfClones(EquivClone(self), EquivClone(other))
equivText(self, s) == EquivOfClones(EquivClone(self), EquivCloneOfText(s))

\* eq with the fragment left out of the comparison
eqWithoutFragment(self, other) ==
  /\ self.scheme = other.scheme
  /\ self.host = other.host
  /\ self.path = other.path
  /\ self.port = other.port
  /\ self.params = other.params
  /\ self.query = other.query
  /\ self.userinfo = other.userinfo

\* URL.__eq__ for a URL operand
eq(self, other) ==
  /\ self.scheme = other.scheme
  /\ self.host = other.host
  /\ self.path = other.path
  /\ self.port = other.port
  /\ self.params = other.params
  /\ self.query = other.query
  /\ self.fragment = other.fragment
  /\ self.userinfo = other.userinfo

\* URL.__eq__ for a raw string operand
eqText(self, s) == eq(self, Parse(s))

\* URL.__ne__
ne(self, other) == ~eq(self, other)
neText(self, s) == ~eqText(self, s)

\* ------------------------------------------------------------ state

\* The eight fields of the URL value under test (self); pre, the fields before
\* the last call (for the constructor: the components it was given); op, arg
\* and ret, the last call, its argument and what it returned or raised; out,
\* the text or the new URL value the last call returned, if it returned one.
VARIABLES scheme, host, port, path, params, query, fragment, userinfo, pre, op, arg, ret, out

fieldVars == <<scheme, host, port, path, params, query, fragment, userinfo>>
vars == <<scheme, host, port, path, params, query, fragment, userinfo, pre, op, arg, ret, out>>

Self ==
  [scheme |-> scheme, host |-> host, port |-> port, path |-> path, params |-> params,
   query |-> query, fragment |-> fragment, userinfo |-> userinfo]

HTTP == T(<<"h", "t", "t", "p">>)
HTTPS == T(<<"h", "t", "t", "p", "s">>)

\* the components urlparse gives for http://h
Blank ==
  [scheme |-> HTTP, host |-> T(<<"h">>), port |-> NoPort, path |-> <<>>, params |-> <<>>,
   query |-> <<>>, fragment |-> <<>>, userinfo |-> None]

\* the argument of a call: a URL operand, a raw string, a set of names, the
\* name of a predicate or the strict flag
NoArg == [kind |-> "none", url |-> Blank, text |-> <<>>, names |-> {}, fn |-> "", strict |-> FALSE]
UrlArg(u) == [NoArg EXCEPT !.kind = "url", !.url = u]
TextArg(s) == [NoArg EXCEPT !.kind = "text", !.text = s]
NamesArg(ns) == [NoArg EXCEPT !.kind = "names", !.names = ns]
FnArg(f) == [NoArg EXCEPT !.kind = "fn", !.fn = f]
StrictArg(b) == [NoArg EXCEPT !.kind = "strict", !.strict = b]

\* the value after a call: the fields of u, and the record of the call with
\* the text or the new URL value it returned
Returns(u, o, a, r, x) ==
  /\ scheme' = u.scheme
  /\ host' = u.host
  /\ port' = u.port
  /\ path' = u.path
  /\ params' = u.params
  /\ query' = u.query
  /\ fragment' = u.fragment
  /\ userinfo' = u.userinfo
  /\ pre' = Self
  /\ op' = o
  /\ arg' = a
  /\ ret' = r
  /\ out' = x

\* a call that returns self, a boolean or nothing, or raises
Becomes(u, o, a, r) == Returns(u, o, a, r, NoArg)

\* URL(scheme, host, port, path, params, query, fragment, userinfo)
Construct(in) ==
  LET u == URLInit(in.scheme, in.host, in.port, in.path, in.params, in.query,
                   in.fragment, in.userinfo)
  IN  /\ scheme = u.scheme
      /\ host = u.host
      /\ port = u.port
      /\ path = u.path
      /\ params = u.params
      /\ query = u.query
      /\ fragment = u.fragment
      /\ userinfo = u.userinfo
      /\ pre = in
      /\ op = "init"
      /\ arg = NoArg
      /\ ret = "self"
      /\ out = NoArg

\* ------------------------------------------------------------ operations

\* the name lists given to deparam
DeparamNames == {{T(<<"a">>)}, {T(<<"A">>), T(<<"c">>)}, {T(<<"c">>)}, {}}

Canonical == Becomes(canonical(Self), "canonical", NoArg, "self")

Defrag == Becomes(defrag(Self), "defrag", NoArg, "self")

Deparam == \E ns \in DeparamNames : Becomes(deparam(Self, ns), "deparam", NamesArg(ns), "self")

FilterParams ==
  \E f \in FilterFns :
    Becomes(filter_params(Self, Predicate(f)), "filter_params", FnArg(f), "self")

Deuserinfo == Becomes(deuserinfo(Self), "deuserinfo", NoArg, "self")

Abspath == Becomes(abspath(Self), "abspath", NoArg, "self")

Sanitize == Becomes(sanitize(Self), "sanitize", NoArg, "self")

Escape == \E strict \in BOOLEAN : Becomes(escape(Self, strict), "escape", StrictArg(strict), "self")

Unescape == Becomes(unescape(Self), "unescape", NoArg, "self")

\* ------------------------------------------------------------ escaping: inputs

\* the longest text given to escape
MaxEscapeLen == 3

\* '%', hex digits of both cases, an unsafe ASCII character and e-acute
EscapeAlphabet == Chars(T(<<"%", "2", "5", "e", "F", " ">>)) \cup {233}

TextsOver(alphabet, n) == UNION {[1..k -> alphabet] : k \in 0..n}

\* longer texts: the cases of the tests, and '%' next to triplets
EscapeExamples ==
  {T(<<"d", "%", "2", "7", "s", " ", "p">>), T(<<"d", "'", "s", " ", "p">>),
   T(<<"h", "%", "2", "c", " ", "o">>), T(<<"%", "3", "f", "%", "2", "3", "%", "5", "b", "%", "5", "d">>),
   T(<<"d", "a", "n", "n", "y", "%", "2", "7", "s", " ", "p", "u", "b">>),
   T(<<"d", "a", "n", "n", "y", "'", "s", " ", "p", "u", "b">>),
   T(<<"a">>) \o <<10>> \o T(<<"b">>),
   T(<<"%", "2", "e", "%">>), T(<<"%", "%", "4", "1">>), T(<<"%", "2", "%", "3", "5">>), T(<<"%", "2", "5", "4", "1">>),
   T(<<"%", "2", "5", "2", "5">>), T(<<"%", "5", "F", "%", "2", "f", "%">>),
   T(<<"%", "e", "2", "%", "8", "2", "%", "a", "c">>), T(<<"%", "C", "3", "%", "A", "9">>),
   T(<<"%", "c", "3">>) \o <<233>> \o T(<<"%", "a", "9">>)}

EscapeTexts == TextsOver(EscapeAlphabet, MaxEscapeLen) \cup EscapeExamples

\* http://h with the text as its path, query, params or userinfo
EscapeInputs ==
  {[Blank EXCEPT !.path = T(<<"/">>) \o t] : t \in EscapeTexts}
    \cup {[Blank EXCEPT !.query = t] : t \in EscapeTexts}
    \cup {[Blank EXCEPT !.params = t] : t \in EscapeTexts}
    \cup {[Blank EXCEPT !.userinfo = t] : t \in EscapeTexts}

InitEscape == \E in \in EscapeInputs : Construct(in)

NextEscape == Escape \/ Unescape

SpecEscape == InitEscape /\ [][NextEscape]_vars

\* C1: escape is idempotent in both modes: right after escape(strict), a second
\* escape(strict) leaves path, query, params and userinfo as they are
EscapeIdempotent ==
  op = "escape" =>
    LET again == escape(Self, arg.strict)
    IN  /\ again.path = path
        /\ again.query = query
        /\ again.params = params
        /\ again.userinfo = userinfo

\* C1 witness: an escape of a path with a lower-case triplet and a lone '%'
EscapeIdempotentWitness ==
  /\ op = "escape"
  /\ pre.path = T(<<"/", "%", "2", "e", "%">>)
  /\ path = T(<<"/", ".", "%", "2", "5">>)

\* ------------------------------------------------------------ paths: inputs

\* the most pieces a path is made of
MaxPathAtoms == 4

PathAtoms == {T(<<"/">>), T(<<".">>), T(<<"a">>), T(<<"%", "2", "E">>), T(<<"%", "2", "f">>)}

TextsOfAtoms(atoms, n) == UNION {{Flatten(f) : f \in [1..k -> atoms]} : k \in 0..n}

\* the paths the tests and the documentation name
PathExamples ==
  {T(<<"a", "/", "b", "/", ".", ".", "/", ".", ".", "/", "c">>), T(<<"a", "/", "b", "/", "c", "/", ".", ".">>),
   T(<<"/", "/", "/", "/", "f", "o", "o">>), T(<<".">>), T(<<"/", ".", ".", "/", "b">>),
   T(<<"/", "%", "2", "E", "%", "2", "E", "/", "a">>), T(<<"/", "a", "%", "2", "F", "%", "2", "F", "b">>)}

PathTexts == TextsOfAtoms(PathAtoms, MaxPathAtoms) \cup PathExamples

\* http://h/... and the hostless reference with the path
PathInputs ==
  {[Blank EXCEPT !.path = t] : t \in PathTexts}
    \cup {[Blank EXCEPT !.path = t, !.scheme = <<>>, !.host = None] : t \in PathTexts}

InitPath == \E in \in PathInputs : Construct(in)

NextPath == Abspath \/ Sanitize \/ Escape \/ Unescape

SpecPath == InitPath /\ [][NextPath]_vars

\* C2 as claimed: sanitize is idempotent, a second sanitize changes no field
SanitizeIdempotent == op = "sanitize" => sanitize(Self) = Self

\* C8 as claimed: abspath of a/b/../../c is c, of a/b/c/.. is a/b/, of ////foo
\* is foo and of a lone . is the empty string
AbspathExamplesClaimed ==
  op = "abspath" =>
    /\ pre.path = T(<<"a", "/", "b", "/", ".", ".", "/", ".", ".", "/", "c">>) => path = T(<<"c">>)
    /\ pre.path = T(<<"a", "/", "b", "/", "c", "/", ".", ".">>) => path = T(<<"a", "/", "b", "/">>)
    /\ pre.path = T(<<"/", "/", "/", "/", "f", "o", "o">>) => path = T(<<"f", "o", "o">>)
    /\ pre.path = T(<<".">>) => path = <<>>

\* C8 amended: abspath of a/b/../../c is c and of a/b/c/.. is a/b/, but ////foo
\* becomes /foo (the leading slash stays) and a lone . becomes /
AbspathExamples ==
  op = "abspath" =>
    /\ pre.path = T(<<"a", "/", "b", "/", ".", ".", "/", ".", ".", "/", "c">>) => path = T(<<"c">>)
    /\ pre.path = T(<<"a", "/", "b", "/", "c", "/", ".", ".">>) => path = T(<<"a", "/", "b", "/">>)
    /\ pre.path = T(<<"/", "/", "/", "/", "f", "o", "o">>) => path = T(<<"/", "f", "o", "o">>)
    /\ pre.path = T(<<".">>) => path = T(<<"/">>)

\* C8 witness: abspath has run on ////foo
AbspathExamplesWitness ==
  /\ op = "abspath"
  /\ pre.path = T(<<"/", "/", "/", "/", "f", "o", "o">>)
  /\ path = T(<<"/", "f", "o", "o">>)

\* ------------------------------------------------------------ relations: operands

\* the operands given to equiv, == and !=: URL values and raw strings
OperandInputs ==
  {[Blank EXCEPT !.scheme = sch, !.port = prt] :
     sch \in {HTTP, HTTPS}, prt \in {NoPort, 0, 80, 443}}
    \cup {[Blank EXCEPT !.userinfo = T(<<"u">>)],
          [Blank EXCEPT !.scheme = <<>>, !.host = None, !.path = T(<<"/", "a">>)],
          [Blank EXCEPT !.path = T(<<"/", "a">>), !.fragment = T(<<"f">>)]}

OperandValues ==
  {URLInit(in.scheme, in.host, in.port, in.path, in.params, in.query, in.fragment,
           in.userinfo) : in \in OperandInputs}

OperandTexts ==
  {HTTP \o T(<<":", "/", "/", "h">>), HTTP \o T(<<":", "/", "/", "h", ":", "0", "/">>),
   HTTP \o T(<<":", "/", "/", "H", ":", "8", "0", "/", "#", "f">>),
   HTTPS \o T(<<":", "/", "/", "u", "@", "h", ":", "4", "4", "3">>), T(<<"/", "a">>)}

RelArgs == {UrlArg(o) : o \in OperandValues} \cup {TextArg(t) : t \in OperandTexts}

\* the URL value an argument stands for: the operand, or the parse of the string
ArgValue(a) == IF a.kind = "text" THEN Parse(a.text) ELSE a.url

EquivResult(self, a) ==
  IF a.kind = "text" THEN equivText(self, a.text) ELSE equiv(self, a.url)

\* self.equiv(other), other an operand or self itself
Equiv ==
  \E a \in RelArgs \cup {UrlArg(Self)} :
    Becomes(Self, "equiv", a, EquivResult(Self, a))

\* self == other
Eq ==
  \E a \in RelArgs \cup {UrlArg(Self)} :
    Becomes(Self, "eq", a, Bool(IF a.kind = "text" THEN eqText(Self, a.text) ELSE eq(Self, a.url)))

\* self != other
Ne ==
  \E a \in RelArgs \cup {UrlArg(Self)} :
    Becomes(Self, "ne", a, Bool(IF a.kind = "text" THEN neText(Self, a.text) ELSE ne(Self, a.url)))

\* the URL values compared, parsed ones and ones made from components: every
\* scheme with every port, every userinfo with every fragment, hostless ones
RelInputs ==
  {[Blank EXCEPT !.scheme = sch, !.port = prt] :
     sch \in {HTTP, HTTPS, T(<<"f", "t", "p">>)}, prt \in {NoPort, 0, 80, 443, 8080}}
    \cup {[Blank EXCEPT !.userinfo = usr, !.fragment = frg, !.path = pth] :
            usr \in {None, <<>>, T(<<"u">>), T(<<"x", "/", "y">>)},
            frg \in {None, <<>>, T(<<"f">>)},
            pth \in {<<>>, T(<<"/", "a">>), T(<<"/", "%", "6", "1">>)}}
    \cup {[Blank EXCEPT !.scheme = sch, !.host = hst, !.path = pth] :
            sch \in {<<>>, HTTP}, hst \in {None, <<>>}, pth \in {T(<<"a">>), T(<<"/", "a">>)}}

InitRel == \E in \in RelInputs : Construct(in)

NextRel == Equiv \/ Eq \/ Ne

SpecRel == InitRel /\ [][NextRel]_vars

\* C4 as claimed: equiv is reflexive and symmetric and returns a boolean, for
\* hostless references and raw string operands too
EquivReflexiveSymmetric ==
  op = "equiv" =>
    /\ ret \in {"True", "False"}
    /\ ret = equiv(ArgValue(arg), Self)
    /\ (arg.kind = "url" /\ arg.url = Self) => ret = "True"

\* the two sides of an equiv call, normalized as equiv normalizes them
NormalizedAgree(a, b) ==
  LET na == punycode(EquivClone(a))
      nb == punycode(EquivClone(b))
  IN  /\ na.scheme = nb.scheme
      /\ na.host = nb.host
      /\ na.path = nb.path
      /\ na.params = nb.params
      /\ na.query = nb.query

\* the port rule of the documentation, on the ports the two values carry
PortRule(a, b) ==
  IF a.port # NoPort /\ b.port = NoPort THEN a.port = PORTS(a.scheme)
  ELSE IF b.port # NoPort /\ a.port = NoPort THEN b.port = PORTS(b.scheme)
  ELSE a.port = b.port

\* C5 as claimed: when the normalized scheme, host, path, params and query
\* agree, equiv is the port rule: one explicit port (0..65535) must be the
\* scheme's default, two or no ports must be equal
EquivPortRule ==
  (/\ op = "equiv"
   /\ arg.kind = "url"
   /\ absolute(Self)
   /\ absolute(arg.url)
   /\ NormalizedAgree(Self, arg.url))
    => ret = Bool(PortRule(Self, arg.url))

UserinfoValues == {None, <<>>, T(<<"u">>), T(<<"u", ":", "p">>), T(<<"x", "/", "y">>)}
FragmentValues == {None, <<>>, T(<<"f">>)}

\* C6 as claimed: for absolute values, equiv does not depend on the fragment
\* or the userinfo of either side
EquivIgnoresFragmentAndUserinfo ==
  (op = "equiv" /\ arg.kind = "url" /\ absolute(Self) /\ absolute(arg.url)) =>
    /\ \A x \in UserinfoValues :
         /\ equiv([Self EXCEPT !.userinfo = x], arg.url) = ret
         /\ equiv(Self, [arg.url EXCEPT !.userinfo = x]) = ret
    /\ \A f \in FragmentValues :
         /\ equiv([Self EXCEPT !.fragment = f], arg.url) = ret
         /\ equiv(Self, [arg.url EXCEPT !.fragment = f]) = ret

\* C7: == holds iff all eight fields are identical, a raw string operand being
\* parsed first (so parse(s) == s), and != is its negation
EqualityExact ==
  /\ op = "eq" => ret = Bool(Self = ArgValue(arg))
  /\ op = "ne" => ret = Bool(Self # ArgValue(arg))
  /\ (op = "eq" /\ arg.kind = "text" /\ Self = Parse(arg.text)) => ret = "True"

\* C7 witness: http://h:80/ compared with the string http://h, equal up to the
\* elided default port, is not ==
EqualityExactWitness ==
  /\ op = "eq"
  /\ arg.kind = "text"
  /\ arg.text = HTTP \o T(<<":", "/", "/", "h">>)
  /\ port = 80
  /\ scheme = HTTP
  /\ ret = "False"

\* ------------------------------------------------------------ filtering: inputs

\* the longest query given to the filters
MaxFilterLen == 4

FilterAlphabet == Chars(T(<<"&", "=", "a", "A", "c">>))

\* the same text with ; for & (the params of a query text)
AsParams(t) == [i \in DOMAIN t |-> IF t[i] = Ord["&"] THEN Ord[";"] ELSE t[i]]

FilterExamples ==
  {T(<<"a", "=", "1", "&", "b", "=", "2", "&", "c", "=", "3", "&", "d", "=", "4">>),
   T(<<"f", "o", "o", "_", "c", "=", "2">>), T(<<"H", "E", "L", "L", "o", "=", "2", "&", "c">>)}

FilterTexts == TextsOver(FilterAlphabet, MaxFilterLen) \cup FilterExamples

\* http://h/ with the text as query and, with ; for &, as params
FilterInputs == {[Blank EXCEPT !.query = t, !.params = AsParams(t)] : t \in FilterTexts}

InitFilter == \E in \in FilterInputs : Construct(in)

NextFilter == Deparam \/ FilterParams \/ Canonical

SpecFilter == InitFilter /\ [][NextFilter]_vars

\* the documented split of a token at its first '='
FirstEq(t) ==
  IF \E i \in DOMAIN t : t[i] = Ord["="]
  THEN CHOOSE i \in DOMAIN t : t[i] = Ord["="] /\ \A j \in 1..(i - 1) : t[j] # Ord["="]
  ELSE 0
TokenName(t) == IF FirstEq(t) = 0 THEN t ELSE Before(t, FirstEq(t))
TokenValue(t) == IF FirstEq(t) = 0 THEN <<>> ELSE After(t, FirstEq(t))

\* the documented drop rule of the last filter call, for a token
TokenDropped(a, t) ==
  IF a.kind = "names"
  THEN \E n \in a.names : LowerText(n) = LowerText(TokenName(t))
  ELSE FilterFn(Predicate(a.fn), TokenName(t), TokenValue(t))

\* the non-empty tokens of the text that the last filter call does not drop
Survivors(text, d, a) ==
  LET stays(t) == t # <<>> /\ ~TokenDropped(a, t) IN SelectSeq(Split(text, d), stays)

\* C10: filter_params and deparam act on query and params: a non-empty token
\* is dropped iff the predicate holds of its name and value (deparam: iff the
\* whole name equals a given name ignoring case), the rest keep their order
\* and delimiter
FilterDropsExactly ==
  op \in {"deparam", "filter_params"} =>
    /\ query = Join(Survivors(pre.query, Ord["&"], arg), Ord["&"])
    /\ params = Join(Survivors(pre.params, Ord[";"], arg), Ord[";"])

\* C10 witness: deparam(['A', 'c']) has dropped a and c and kept ac
FilterDropsExactlyWitness ==
  /\ op = "deparam"
  /\ arg.names = {T(<<"A">>), T(<<"c">>)}
  /\ pre.query = T(<<"a", "&", "a", "c">>)
  /\ query = T(<<"a", "c">>)
  /\ params = T(<<"a", "c">>)

\* ------------------------------------------------------------ all operations

\* the longest run of delimiters and names given as query or params
MaxDelimLen == 4

DelimTexts(d) == TextsOver({d, Ord["?"], Ord["a"]}, MaxDelimLen)

\* delimiter runs, and the cases of the tests and the documentation
GeneralInputs ==
  {[Blank EXCEPT !.query = t] : t \in DelimTexts(Ord["&"])}
    \cup {[Blank EXCEPT !.params = t] : t \in DelimTexts(Ord[";"])}
    \cup {[Blank EXCEPT !.query = T(<<"a", "=", "1", "&", "&", "&", "&", "&", "&", "b", "=", "2">>),
                        !.params = T(<<"a", "=", "1", ";", ";", ";", ";", ";", ";", "b", "=", "2">>)],
          [Blank EXCEPT !.query = T(<<"a", "%", "2", "6", "%", "2", "6", "b">>)],
          [Blank EXCEPT !.params = T(<<"b", "%", "3", "B", "%", "3", "b", "a">>)],
          [Blank EXCEPT !.path = T(<<"/", "a", "/", ".", ".", "/", "%", "6", "1", " ">>),
                        !.fragment = T(<<"f">>), !.userinfo = T(<<"u", ":", "p", " ">>),
                        !.query = T(<<"b", "&", "a">>)],
          [Blank EXCEPT !.scheme = <<>>, !.host = None, !.path = T(<<"a", "/", ".">>)]}

Init == \E in \in GeneralInputs : Construct(in)

Next ==
  \/ Canonical
  \/ Defrag
  \/ Deparam
  \/ FilterParams
  \/ Deuserinfo
  \/ Abspath
  \/ Sanitize
  \/ Escape
  \/ Unescape

Spec == Init /\ [][Next]_vars

\* the text holds two delimiters in a row
HasRun(t, d) == \E i \in 1..(Len(t) - 1) : t[i] = d /\ t[i + 1] = d

\* C3 as claimed: in every state the constructor and the transformations
\* reach, query holds no run of '&' and params no run of ';'
NoDelimiterRuns == ~HasRun(query, Ord["&"]) /\ ~HasRun(params, Ord[";"])

\* C9 as claimed: the constructor stores a query that begins with neither '?'
\* nor '&' and params that do not begin with ';', with every run of the
\* delimiter collapsed (a=1&&&&&&b=2 is stored as a=1&b=2)
ConstructorNormalizesDelimiters ==
  op = "init" =>
    /\ query = <<>> \/ query[1] \notin {Ord["?"], Ord["&"]}
    /\ params = <<>> \/ params[1] # Ord[";"]
    /\ ~HasRun(query, Ord["&"])
    /\ ~HasRun(params, Ord[";"])
    /\ pre.query = T(<<"a", "=", "1", "&", "&", "&", "&", "&", "&", "b", "=", "2">>)
         => query = T(<<"a", "=", "1", "&", "b", "=", "2">>)

\* ------------------------------------------------------------ hosts: inputs

\* URL.punycode(): raises, or assigns the host and returns self
Punycode ==
  LET e == PunycodeError(Self)
  IN  IF e = ""
      THEN Becomes(punycode(Self), "punycode", NoArg, "self")
      ELSE Becomes(Self, "punycode", NoArg, e)

\* URL.unpunycode(): raises, or assigns the host and returns self
Unpunycode ==
  LET e == UnpunycodeError(Self)
  IN  IF e = ""
      THEN Becomes(unpunycode(Self), "unpunycode", NoArg, "self")
      ELSE Becomes(Self, "unpunycode", NoArg, e)

\* the most labels of a host
MaxHostLabels == 2

\* labels: ASCII of both cases, u-umlaut of both cases, sharp-s, an ACE label
\* and the empty label
HostLabels == {T(<<"a">>), T(<<"A">>), <<252>>, <<220>>, <<223>>, XN_TDA, <<>>}

HostTexts ==
  {Join(ls, Ord["."]) : ls \in UNION {[1..k -> HostLabels] : k \in 1..MaxHostLabels}}

\* a value with each host, absent and empty included, built from components
HostInputs ==
  {[Blank EXCEPT !.host = h] : h \in HostTexts \cup {None}}
    \cup {[Blank EXCEPT !.host = h, !.scheme = <<>>, !.path = T(<<"a">>),
                         !.userinfo = T(<<"u">>), !.fragment = T(<<"f">>)] :
             h \in {None, <<>>, <<252>>}}

InitHost == \E in \in HostInputs : Construct(in)

NextHost == Punycode \/ Unpunycode

SpecHost == InitHost /\ [][NextHost]_vars

PunycodeLaws ==
  (op = "punycode" /\ ret = "self") =>
    /\ PunycodeError(Self) = "" /\ punycode(Self) = Self
    /\ UnpunycodeError(Self) = "" /\ unpunycode(Self).host = pre.host
    /\ [Self EXCEPT !.host = pre.host] = pre
    /\ unpunycode(Self) = [Self EXCEPT !.host = unpunycode(Self).host]

\* ------------------------------------------------------------ canonical order

\* a is b or comes before b in code point order: at the first position where
\* they differ a has the smaller code point, or a ends there
CodepointLeq(a, b) ==
  \E k \in 1..(Len(a) + 1) :
    /\ \A j \in 1..(k - 1) : j <= Len(b) /\ a[j] = b[j]
    /\ k > Len(a) \/ (k <= Len(b) /\ a[k] < b[k])

\* how many times the token occurs in the list
Occurrences(t, parts) == Cardinality({i \in DOMAIN parts : parts[i] = t})

\* after holds the tokens of before, each as often, in ascending order
Reordered(before, after, d) ==
  LET old == Split(before, d)
      new == Split(after, d)
  IN  /\ \A i \in 1..(Len(new) - 1) : CodepointLeq(new[i], new[i + 1])
      /\ Len(new) = Len(old)
      /\ \A i \in DOMAIN old : Occurrences(old[i], new) = Occurrences(old[i], old)

\* C11: canonical puts the tokens of query and of params in ascending
\* code point order of the whole token, keeps each token as often as it
\* occurred, and is idempotent
CanonicalSorts ==
  op = "canonical" =>
    /\ Reordered(pre.query, query, Ord["&"])
    /\ Reordered(pre.params, params, Ord[";"])
    /\ canonical(Self) = Self

\* C11 witness: canonical has put the token a before a=, and A before both
CanonicalSortsWitness ==
  /\ op = "canonical"
  /\ pre.query = T(<<"a", "=", "&", "a">>)
  /\ query = T(<<"a", "&", "a", "=">>)
  /\ params = T(<<"a", ";", "a", "=">>)

\* ------------------------------------------------------------ parsing: inputs

\* url.parse(text): the value parse returns; pre holds the components that
\* URL.parse gave to the constructor
ParseOf(text) ==
  LET u == Parse(text)
  IN  /\ scheme = u.scheme
      /\ host = u.host
      /\ port = u.port
      /\ path = u.path
      /\ params = u.params
      /\ query = u.query
      /\ fragment = u.fragment
      /\ userinfo = u.userinfo
      /\ pre = UrlParse(text)
      /\ op = "parse"
      /\ arg = TextArg(text)
      /\ ret = "self"
      /\ out = NoArg

\* URL.unicode(): str(self)
Unicode == Returns(Self, "unicode", NoArg, "text", TextArg(Str(Self)))

\* URL.utf8(): str(self).encode('utf-8')
Utf8Bytes ==
  LET t == Str(Self)
  IN  Returns(Self, "utf8", NoArg, "bytes", TextArg(Flatten([i \in DOMAIN t |-> Utf8(t[i])])))

\* the pieces of the texts given to parse
ParseSchemes == {<<>>, HTTP \o T(<<":">>), T(<<"H", "t", "t", "p", ":">>), T(<<"x", ":">>)}
ParseAuthorities ==
  {<<>>, T(<<"/", "/">>), T(<<"/", "/", "h">>), T(<<"/", "/", "H">>),
   T(<<"/", "/", "u", "s", "e", "r", "i", "n", "f", "o", "@">>), T(<<"/", "/", ":", "8", "0">>),
   T(<<"/", "/", "u", "@", "H", ":", "8", "0">>), T(<<"/", "/", "h", "%", "A">>),
   T(<<"/", "/">>) \o <<220>>}
ParsePaths == {<<>>, T(<<"/", "p", "a", "t", "h">>), T(<<"/", "P">>)}
ParseTails == {<<>>, T(<<"?", "a", "=", "1">>), T(<<"#", "f", "r", "a", "g">>), T(<<"?", "a", "#", "f">>)}

ParseTexts ==
  {s \o a \o p \o t : s \in ParseSchemes, a \in ParseAuthorities, p \in ParsePaths, t \in ParseTails}

\* components given to the constructor directly
ComponentInputs ==
  {[Blank EXCEPT !.host = h, !.path = p] :
     h \in {None, <<>>, T(<<"h">>), T(<<"H">>), <<220>>}, p \in ParsePaths}

InitParse ==
  \/ \E text \in ParseTexts : ParseOf(text)
  \/ \E in \in ComponentInputs : Construct(in)

NextParse == Unicode \/ Utf8Bytes

SpecParse == InitParse /\ [][NextParse]_vars

\* C14 as claimed: the stored path is never null, and an empty input path is
\* stored as / when a host is given and as the empty string otherwise
PathDefault ==
  op \in {"init", "parse"} =>
    /\ path # None
    /\ pre.path = <<>> => path = (IF pre.host # None THEN T(<<"/">>) ELSE <<>>)

\* an upper-case letter of ASCII or Latin-1
IsUpperCase(c) == c \in 65..90 \/ (c \in 192..222 /\ c # 215)

\* C15 as claimed: after parse or the constructor the stored host holds no
\* upper-case letter, and a given path is stored in the case it was given
HostLowerCase ==
  op \in {"init", "parse"} =>
    /\ host = None \/ \A k \in DOMAIN host : ~IsUpperCase(host[k])
    /\ pre.path # <<>> => path = pre.path

\* the three texts with an empty host
EmptyHostTexts ==
  {HTTP \o T(<<":", "/", "/", "/", "p", "a", "t", "h">>),
   HTTP \o T(<<":", "/", "/", "u", "s", "e", "r", "i", "n", "f", "o", "@", "/", "p", "a", "t", "h">>),
   HTTP \o T(<<":", "/", "/", ":", "8", "0", "/", "p", "a", "t", "h">>)}

\* C16 as claimed: parse of a text with an empty host stores the empty host,
\* not an absent one, and the value serializes back to the text
EmptyHostPreserved ==
  (op = "parse" /\ arg.text \in EmptyHostTexts) =>
    /\ host = <<>>
    /\ Str(Self) = arg.text

\* ------------------------------------------------------------ escaping: rules

HexText ==
  T(<<"0", "1", "2", "3", "4", "5", "6", "7", "8", "9", "A", "B", "C", "D", "E", "F">>)

\* the upper-case-hex triplets of the UTF-8 bytes of a character
UpperHexTriplets(c) ==
  LET bytes == Utf8(c)
  IN  Flatten([i \in DOMAIN bytes |->
                 <<Ord["%"], HexText[(bytes[i] \div 16) + 1], HexText[(bytes[i] % 16) + 1]>>])

\* after is the decoded form of before, character by character: a character
\* of the safe set as it is, any other as its triplets
EscapedAs(before, after, safe) ==
  LET d == urlunquote(before)
  IN  after = Flatten([i \in DOMAIN d |->
                         IF d[i] \in safe THEN <<d[i]>> ELSE UpperHexTriplets(d[i])])

HasTriplet(t) == \E i \in DOMAIN t : IsTriplet(t, i)

\* the value with path, query, params and userinfo percent-decoded
Decoded(u) ==
  [u EXCEPT !.path = urlunquote(u.path), !.query = urlunquote(u.query),
            !.params = urlunquote(u.params),
            !.userinfo = IF Truthy(u.userinfo) THEN urlunquote(u.userinfo) ELSE u.userinfo]

\* the four escaped components of the two values are the same
SameEscaped(a, b) ==
  a.path = b.path /\ a.query = b.query /\ a.params = b.params /\ a.userinfo = b.userinfo

\* the lenient escape has written each component as the image of its decoded
\* form (danny%27s pub and danny's pub both as danny's%20pub)
LenientImage ==
  /\ EscapedAs(pre.path, path, PATH)
  /\ EscapedAs(pre.query, query, QUERY)
  /\ EscapedAs(pre.params, params, QUERY)
  /\ Truthy(pre.userinfo) => EscapedAs(pre.userinfo, userinfo, USERINFO)
  /\ pre.path = T(<<"/", "d", "a", "n", "n", "y", "%", "2", "7", "s", " ", "p", "u", "b">>)
       => path = T(<<"/", "d", "a", "n", "n", "y", "'", "s", "%", "2", "0", "p", "u", "b">>)
  /\ pre.path = T(<<"/", "d", "a", "n", "n", "y", "'", "s", " ", "p", "u", "b">>)
       => path = T(<<"/", "d", "a", "n", "n", "y", "'", "s", "%", "2", "0", "p", "u", "b">>)
  /\ pre.path = T(<<"/", "%", "3", "f", "%", "2", "3", "%", "5", "b", "%", "5", "d">>)
       => path = T(<<"/", "%", "3", "F", "%", "2", "3", "%", "5", "B", "%", "5", "D">>)

\* C17 as claimed: the lenient escape gives the same for a text and for its
\* percent-decoded form, a decoded character of the safe set comes out
\* literally and any other as upper-case-hex triplets of its UTF-8 bytes
LenientEscapeClaimed ==
  (op = "escape" /\ ~arg.strict) =>
    /\ LenientImage
    /\ SameEscaped(escape(Decoded(pre), FALSE), Self)

\* C17 amended: as claimed, but the text and its decoded form escape alike
\* only when the decoded form holds no triplet of its own (no %25XX input)
LenientEscape ==
  (op = "escape" /\ ~arg.strict) =>
    /\ LenientImage
    /\ (~HasTriplet(urlunquote(pre.path)) /\ ~HasTriplet(urlunquote(pre.query))
         /\ ~HasTriplet(urlunquote(pre.params))
         /\ (Truthy(pre.userinfo) => ~HasTriplet(urlunquote(pre.userinfo))))
        => SameEscaped(escape(Decoded(pre), FALSE), Self)

\* C17 witness: the lenient escape of danny%27s pub
LenientEscapeWitness ==
  /\ op = "escape"
  /\ ~arg.strict
  /\ pre.path = T(<<"/", "d", "a", "n", "n", "y", "%", "2", "7", "s", " ", "p", "u", "b">>)
  /\ path = T(<<"/", "d", "a", "n", "n", "y", "'", "s", "%", "2", "0", "p", "u", "b">>)

\* the value of a hex digit of either case, -1 for any other character
HexDigitValue(c) ==
  IF \E n \in 1..16 : HexText[n] = Upper(c)
  THEN (CHOOSE n \in 1..16 : HexText[n] = Upper(c)) - 1
  ELSE 0 - 1

\* a '%' followed by two hex digits starts at position i
TripletAt(t, i) ==
  /\ i + 2 <= Len(t)
  /\ t[i] = Ord["%"]
  /\ HexDigitValue(t[i + 1]) >= 0
  /\ HexDigitValue(t[i + 2]) >= 0

\* the documented strict encoding of the text from position i on, token by
\* token: a triplet or else one character
RECURSIVE StrictImage(_, _, _)
StrictImage(t, safe, i) ==
  IF i > Len(t) THEN <<>>
  ELSE IF TripletAt(t, i)
  THEN LET c == 16 * HexDigitValue(t[i + 1]) + HexDigitValue(t[i + 2])
       IN  (IF c \in safe /\ c \notin (GEN_DELIMS \cup SUB_DELIMS)
            THEN <<c>>
            ELSE <<t[i], HexText[HexDigitValue(t[i + 1]) + 1], HexText[HexDigitValue(t[i + 2]) + 1]>>)
             \o StrictImage(t, safe, i + 3)
  ELSE (IF t[i] \in safe THEN <<t[i]>> ELSE UpperHexTriplets(t[i]))
         \o StrictImage(t, safe, i + 1)

\* C18: the strict escape encodes path, query, params and a non-empty
\* userinfo token by token: a triplet is decoded iff its character is safe and
\* not reserved, else kept with upper-case hex digits; a safe character
\* passes, any other becomes the triplets of its UTF-8 bytes
StrictEscape ==
  (op = "escape" /\ arg.strict) =>
    /\ path = StrictImage(pre.path, PATH, 1)
    /\ query = StrictImage(pre.query, QUERY, 1)
    /\ params = StrictImage(pre.params, QUERY, 1)
    /\ userinfo = (IF Truthy(pre.userinfo) THEN StrictImage(pre.userinfo, USERINFO, 1)
                   ELSE pre.userinfo)
    /\ pre.query = T(<<"%", " ">>) \o <<233>> => query = T(<<"%", "2", "5", "%", "2", "0", "%", "C", "3", "%", "A", "9">>)
    /\ pre.path = T(<<"/", "a">>) \o <<10>> \o T(<<"b">>) => path = T(<<"/", "a", "%", "0", "A", "b">>)

\* C18 witness: the strict escape of %5F%2f% in the query: the unreserved _
\* decoded, the reserved / kept in upper case, the lone % encoded
StrictEscapeWitness ==
  /\ op = "escape"
  /\ arg.strict
  /\ pre.query = T(<<"%", "5", "F", "%", "2", "f", "%">>)
  /\ query = T(<<"_", "%", "2", "F", "%", "2", "5">>)

\* ------------------------------------------------------------ paths: normal form

\* C20: abspath is total and leaves a normal form: no segment of the result
\* is . or .., there is no run of /, a .. with nothing to pop is dropped
\* (../a gives a), and a second abspath changes nothing
AbspathNormalForm ==
  op = "abspath" =>
    /\ ret = "self"
    /\ \A k \in DOMAIN Split(path, Ord["/"]) :
         Split(path, Ord["/"])[k] \notin {T(<<".">>), T(<<".", ".">>)}
    /\ ~HasRun(path, Ord["/"])
    /\ pre.path = T(<<".", ".", "/", "a">>) => path = T(<<"a">>)
    /\ abspath(Self) = Self

\* C20 witness: abspath has dropped the .. of ../a
AbspathNormalFormWitness ==
  /\ op = "abspath"
  /\ pre.path = T(<<".", ".", "/", "a">>)
  /\ path = T(<<"a">>)

\* ------------------------------------------------------------ relative references

\* urlparse(url, scheme): the six components, the netloc as written
RawParse(url, default) ==
  LET a == SplitScheme(Cleaned(url))
      sch == IF a[1] = <<>> THEN default ELSE a[1]
      b == SplitNetloc(a[2])
      c == SplitOnce(b[2], Ord["#"])
      d == SplitOnce(c[1], Ord["?"])
      e == SplitParams(sch, d[1])
  IN  [scheme |-> sch, netloc |-> b[1], path |-> e[1], params |-> e[2], query |-> d[2],
       fragment |-> c[2]]

\* the schemes the model uses that urllib lists in uses_relative
USES_RELATIVE == USES_NETLOC

\* urljoin: base_parts, the segments of the base path without the last one
BaseParts(bpath) ==
  LET parts == Split(bpath, Ord["/"])
  IN  IF parts[Len(parts)] # <<>> THEN Slice(parts, 1, Len(parts) - 1) ELSE parts

\* urljoin: segments[1:-1] = filter(None, segments[1:-1])
FilterInner(segments) ==
  LET nonEmpty(x) == x # <<>>
      inner == SelectSeq(Slice(segments, 2, Len(segments) - 1), nonEmpty)
  IN  IF Len(segments) < 3 THEN segments
      ELSE <<segments[1]>> \o inner \o <<segments[Len(segments)]>>

\* urljoin: the loop over the segments from i on
RECURSIVE Resolve(_, _, _)
Resolve(segments, i, resolved) ==
  IF i > Len(segments) THEN resolved
  ELSE IF segments[i] = T(<<".", ".">>)
       THEN Resolve(segments, i + 1, Slice(resolved, 1, Len(resolved) - 1))
       ELSE IF segments[i] = T(<<".">>) THEN Resolve(segments, i + 1, resolved)
       ELSE Resolve(segments, i + 1, Append(resolved, segments[i]))

\* urljoin: the resolved path of a base path and a non-empty relative path
ResolvedPath(bpath, pth) ==
  LET segments == IF pth # <<>> /\ pth[1] = Ord["/"] THEN Split(pth, Ord["/"])
                  ELSE FilterInner(BaseParts(bpath) \o Split(pth, Ord["/"]))
      walked == Resolve(segments, 1, <<>>)
      resolved == IF segments[Len(segments)] \in {T(<<".">>), T(<<".", ".">>)}
                  THEN Append(walked, <<>>) ELSE walked
      joined == Join(resolved, Ord["/"])
  IN  IF joined = <<>> THEN T(<<"/">>) ELSE joined

\* urljoin on the parsed base b and the parsed reference u
JoinParsed(url, b, u) ==
  IF u.scheme # b.scheme \/ u.scheme \notin USES_RELATIVE THEN url
  ELSE IF u.scheme \in USES_NETLOC /\ u.netloc # <<>>
  THEN urlunparse(u.scheme, u.netloc, u.path, u.params, u.query, u.fragment)
  ELSE LET netloc == IF u.scheme \in USES_NETLOC THEN b.netloc ELSE u.netloc
       IN  IF u.path = <<>> /\ u.params = <<>>
           THEN urlunparse(u.scheme, netloc, b.path, b.params,
                           IF u.query = <<>> THEN b.query ELSE u.query, u.fragment)
           ELSE urlunparse(u.scheme, netloc, ResolvedPath(b.path, u.path), u.params,
                           u.query, u.fragment)

\* urljoin(base, url)
urljoin(base, url) ==
  IF base = <<>> THEN url
  ELSE IF url = <<>> THEN base
  ELSE CHOOSE r \in {JoinParsed(url, b, RawParse(url, b.scheme)) : b \in {RawParse(base, <<>>)}} : TRUE

\* URL.relative(path): the new value for a path given as text
relative(u, pth) == Parse(urljoin(Str(u), pth))

\* the paths given to relative
RelativePaths ==
  {<<>>, T(<<"b">>), T(<<".", ".", "/", "c">>), T(<<"/", "d", "?", "x">>),
   T(<<"/", "/", "g", "/", "p">>), T(<<"#", "z">>)}

\* self.relative(path): returns a new URL value
Relative ==
  \E p \in RelativePaths :
    Returns(Self, "relative", TextArg(p), "url", UrlArg(relative(Self, p)))

\* ------------------------------------------------------------ every call: inputs

\* a value whose path, fragment and userinfo a call could change, and one
\* whose query, params and fragment a call could change
FrameInputs ==
  {[scheme |-> HTTP, host |-> T(<<"H">>), port |-> 80, path |-> T(<<"/", "%", "6", "1", "/", ".", ".">>),
    params |-> <<>>, query |-> <<>>, fragment |-> T(<<"f">>), userinfo |-> T(<<"u", " ">>)],
   [scheme |-> HTTP, host |-> T(<<"h">>), port |-> NoPort, path |-> T(<<"/">>),
    params |-> T(<<"c">>), query |-> T(<<"b", "&", "a">>), fragment |-> T(<<"f">>),
    userinfo |-> None]}

InitFrame == \E in \in FrameInputs : Construct(in)

NextFrame ==
  \/ Canonical
  \/ Defrag
  \/ Deparam
  \/ FilterParams
  \/ Deuserinfo
  \/ Abspath
  \/ Sanitize
  \/ Escape
  \/ Unescape
  \/ Equiv
  \/ Eq
  \/ Ne
  \/ Relative
  \/ Unicode
  \/ Utf8Bytes

SpecFrame == InitFrame /\ [][NextFrame]_vars

\* the fields the last call has changed
Changed == {f \in Fields : Self[f] # pre[f]}

\* C19: a call changes only its own fields: defrag the fragment (to absent),
\* deuserinfo the userinfo (to absent), abspath and unescape the path,
\* canonical, deparam and filter_params query and params, escape path,
\* query, params and userinfo, each returning self; equiv, ==, !=, relative
\* and the serialization accessors change nothing, relative returning a new
\* value
FrameRule ==
  /\ op = "defrag" => Changed \subseteq {"fragment"} /\ fragment = None
  /\ op = "deuserinfo" => Changed \subseteq {"userinfo"} /\ userinfo = None
  /\ op \in {"abspath", "unescape"} => Changed \subseteq {"path"}
  /\ op \in {"canonical", "deparam", "filter_params"} => Changed \subseteq {"query", "params"}
  /\ op = "escape" => Changed \subseteq {"path", "query", "params", "userinfo"}
  /\ op \in {"defrag", "deuserinfo", "abspath", "unescape", "canonical", "deparam",
              "filter_params", "escape"} => ret = "self"
  /\ op \in {"equiv", "eq", "ne", "relative", "unicode", "utf8"} => Changed = {}
  /\ op = "relative" => out.kind = "url"

\* C19 witness: unescape has changed the path of a value that holds a
\* fragment and a userinfo, and only the path
FrameRuleWitness ==
  /\ op = "unescape"
  /\ Changed = {"path"}
  /\ path = T(<<"/", "a", "/", ".", ".">>)
  /\ userinfo = T(<<"u", " ">>)
  /\ fragment = T(<<"f">>)

\* ------------------------------------------------------------ paths: the root

\* the path begins with /
Rooted(p) == p # None /\ Len(p) > 0 /\ p[1] = Ord["/"]

\* the value with the given path placed at the root
AtRoot(u, p) == [u EXCEPT !.path = IF Rooted(p) THEN p ELSE <<Ord["/"]>> \o p]

\* C21 as claimed: abspath keeps a rooted path rooted, and an absolute URL
\* with a rooted path is equivalent to the URL whose path is the normalized
\* text at the root (http://foo.com/../b and http://foo.com/b)
AbspathKeepsRoot ==
  (op = "abspath" /\ Rooted(pre.path)) =>
    /\ Rooted(path)
    /\ pre.host # None => equiv(pre, AtRoot(pre, path)) = "True"

\* ------------------------------------------------------------ spelling: inputs

\* queries that spell z and a as themselves or as triplets
SpellTexts ==
  {T(<<"%", "7", "A", "=", "1", "&", "a", "=", "1">>), T(<<"z", "=", "1", "&", "a", "=", "1">>),
   T(<<"%", "7", "a", "=", "1", "&", "a", "=", "1">>), T(<<"a", "=", "1", "&", "z", "=", "1">>),
   T(<<"a", "=", "1", "&", "%", "7", "A", "=", "1">>), T(<<"%", "6", "1">>), T(<<"a">>)}

\* http://h/ with the text as query, with the text as params (; for &), and
\* with a path that spells z either way
SpellInputs ==
  {[Blank EXCEPT !.path = T(<<"/">>), !.query = t] : t \in SpellTexts}
    \cup {[Blank EXCEPT !.path = T(<<"/">>), !.params = AsParams(t)] : t \in SpellTexts}
    \cup {[Blank EXCEPT !.path = p] : p \in {T(<<"/", "%", "7", "A">>), T(<<"/", "z">>)}}

SpellValues ==
  {URLInit(in.scheme, in.host, in.port, in.path, in.params, in.query, in.fragment,
           in.userinfo) : in \in SpellInputs}

InitSpell == \E in \in SpellInputs : Construct(in)

\* self.equiv(other), other one of the values
EquivSpelled ==
  \E o \in SpellValues : Becomes(Self, "equiv", UrlArg(o), EquivResult(Self, UrlArg(o)))

NextSpell == EquivSpelled

SpecSpell == InitSpell /\ [][NextSpell]_vars

\* the text with every triplet of an unreserved character written as the
\* character, from position i on
RECURSIVE Plain(_, _)
Plain(t, i) ==
  IF i > Len(t) THEN <<>>
  ELSE IF TripletAt(t, i) /\ (16 * HexDigitValue(t[i + 1]) + HexDigitValue(t[i + 2])) \in UNRESERVED
  THEN <<16 * HexDigitValue(t[i + 1]) + HexDigitValue(t[i + 2])>> \o Plain(t, i + 3)
  ELSE <<t[i]>> \o Plain(t, i + 1)

\* the two values differ at most in how unreserved characters of path, query
\* and params are written
SameButSpelling(a, b) ==
  /\ a.scheme = b.scheme /\ a.host = b.host /\ a.port = b.port
  /\ a.fragment = b.fragment /\ a.userinfo = b.userinfo
  /\ Plain(a.path, 1) = Plain(b.path, 1)
  /\ Plain(a.query, 1) = Plain(b.query, 1)
  /\ Plain(a.params, 1) = Plain(b.params, 1)

\* the tokens of the text are in ascending order
Ascending(t, d) ==
  LET parts == Split(t, d)
  IN  \A i \in 1..(Len(parts) - 1) : CodepointLeq(parts[i], parts[i + 1])

\* C22 as claimed: two absolute URLs that differ only in how unreserved
\* characters of path, query and params are written (?%7A=1&a=1 and
\* ?z=1&a=1) are equivalent, and the clones equiv compares hold their query
\* and params tokens in ascending order
EquivSpellingFree ==
  (op = "equiv" /\ arg.kind = "url" /\ SameButSpelling(Self, arg.url)) =>
    /\ ret = "True"
    /\ \A c \in {EquivClone(Self), EquivClone(arg.url)} :
         Ascending(c.query, Ord["&"]) /\ Ascending(c.params, Ord[";"])

====
